---- MODULE Spec2Model ----
(***************************************************************************)
(* State-machine model of the hangar-cicd VS Code extension:               *)
(*   - the checklist of scripts and the "hangar-cicd.runScripts" handler   *)
(*     (extension.ts),                                                     *)
(*   - the script dispatcher HangarScripts in its two variants: the        *)
(*     execSync one (hangarScripts.ts, three-parameter scriptSelector) and *)
(*     the promisified-exec one (hangarScripts.js, two parameters).        *)
(* Every invocation of the handler, and every direct call of               *)
(* scriptSelector, is a record in the bag `calls`; its `log` lists, in     *)
(* order, the host-API calls the invocation has made.                      *)
(***************************************************************************)
EXTENDS Naturals, Sequences, FiniteSets, Bags

VARIABLES variant, checked, calls

vars == <<variant, checked, calls>>

\* Bound: how many invocations (handler runs and direct dispatcher calls) a run holds.
MaxCalls == 2

\* ------------------------------------------------------------------ values

\* JavaScript's undefined (showInputBox cancelled, or a parameter not passed).
Undefined == "<undefined>"
\* A field not set yet.
None == "<none>"

\* The two dispatchers the import "./hangarScripts" can resolve to.
Variants == {"execSync", "promisified"}

\* The catalog with an entry the promisified dispatcher has no case for.
CatalogWithAddSecret == <<"create-repo.sh", "add-secret.sh", "pipeline_generator.sh">>

\* customRadioButtons: the ids of the checklist, in order.
Catalog == <<"create-repo.sh", "pipeline_generator.sh">>

CatalogIds == {Catalog[k] : k \in 1..Len(Catalog)}

\* What the user can type into the input box (Undefined: the box was cancelled).
AttrInputs == {Undefined, "", " ", "-a create -n repo-test -d /tmp/x"}

\* Ids a caller can hand to scriptSelector.
DispatchIds == {"create-repo.sh", "add-secret.sh", "pipeline_generator.sh", "nonexistent.sh"}

\* Ids toggle can be called with.
ToggleIds == CatalogIds \cup {"nonexistent.sh"}

\* How a spawned process ends.
Outcomes == {"exit0", "nonzero", "spawnError"}

\* The text of the error a failed process raises.
RawError(outcome) == IF outcome = "nonzero" THEN "Command failed" ELSE "spawn ENOENT"

\* if (x): undefined and the empty string are falsy, every other string is truthy.
Truthy(x) == x # Undefined /\ x # ""

\* `${x}` in a template literal.
Interpolate(x) == IF x = Undefined THEN "undefined" ELSE x

\* ------------------------------------------------------------------ log entries

Ev(kind, text, arg) == <<kind, text, arg>>

MsgSelectOne == "ERROR: Please select only one script at a time."
MsgMissing == "Required attributes missing"
MsgNoScript == "No script found for radio button ID: "
MsgExecFailed == "Error executing script: "
MsgError == "Error: "

\* The information message of the promisified variant, per script.
InfoMessage(scriptId) ==
    IF scriptId = "create-repo.sh" THEN "CREATING REPO ..." ELSE "GENERATING PIPELINE ..."

\* ------------------------------------------------------------------ selection model

\* toggle that only ever checks.
toggleSetsChecked(state, id) ==
    IF id \in DOMAIN state THEN [state EXCEPT ![id] = TRUE] ELSE state

\* toggle(id): flips the checked flag of the Action with that id; an unknown id is a no-op.
toggle(state, id) ==
    IF id \in DOMAIN state THEN [state EXCEPT ![id] = ~state[id]] ELSE state

\* selectedScriptIds: the checked ids, in catalog order.
SelectedScriptIds(state) == SelectSeq(Catalog, LAMBDA id : state[id])

\* ------------------------------------------------------------------ invocations

NewCall(origin, nsel, sel) ==
    [origin |-> origin, pc |-> "done", nsel |-> nsel, sel |-> sel, entered |-> None,
     ndispatch |-> 0, scriptId |-> None, scriptPath |-> None, scriptAttributes |-> None,
     log |-> <<>>]

Logged(c, e) == [c EXCEPT !.log = Append(@, e)]

\* The invocations, as a set of records (two invocations in the same state are one record).
Calls == BagToSet(calls)

Started(c) == calls (+) SetToBag({c})

Stepped(c, d) == (calls (-) SetToBag({c})) (+) SetToBag({d})

\* The number of spawned processes that have not ended.
InFlight == BagCardinality([c \in {d \in Calls : d.pc = "running"} |-> calls[c]])

\* exec that blocks the event loop as execSync does.
BlockedByAnyProcess == InFlight > 0

\* execSync holds the extension host's only thread until the process ends.
Blocked == variant = "execSync" /\ InFlight > 0

\* ------------------------------------------------------------------ the handler

\* The handler that treats several checked scripts as a selection of the first.
runScriptsTakesFirst(state) ==
    LET selectedScriptIds == SelectedScriptIds(state) IN
    IF Len(selectedScriptIds) >= 1
    THEN [Logged(NewCall("ui", Len(selectedScriptIds), selectedScriptIds[1]),
                 Ev("showInputBox", "", "")) EXCEPT !.pc = "prompt"]
    ELSE NewCall("ui", 0, None)

\* The handler that reports every selection that is not exactly one script.
runScriptsRejectsEmpty(state) ==
    LET selectedScriptIds == SelectedScriptIds(state) IN
    IF Len(selectedScriptIds) = 1
    THEN [Logged(NewCall("ui", 1, selectedScriptIds[1]),
                 Ev("showInputBox", "", "")) EXCEPT !.pc = "prompt"]
    ELSE Logged(NewCall("ui", Len(selectedScriptIds), None),
                Ev("showErrorMessage", MsgSelectOne, ""))

\* "hangar-cicd.runScripts", up to its await of showInputBox: the invocation it starts.
runScripts(state) ==
    LET selectedScriptIds == SelectedScriptIds(state) IN
    IF Len(selectedScriptIds) > 1
    THEN Logged(NewCall("ui", Len(selectedScriptIds), None),
                Ev("showErrorMessage", MsgSelectOne, ""))
    ELSE IF Len(selectedScriptIds) = 1
    THEN [Logged(NewCall("ui", 1, selectedScriptIds[1]),
                 Ev("showInputBox", "", "")) EXCEPT !.pc = "prompt"]
    ELSE NewCall("ui", 0, None)

\* ------------------------------------------------------------------ dispatcher, execSync variant

\* The entry of scriptSelector: the call and its arguments, recorded.
Entered(c, scriptId, scriptPath, scriptAttributes) ==
    [Logged(c, Ev("scriptSelector", scriptId, "")) EXCEPT
        !.ndispatch = @ + 1, !.scriptId = scriptId, !.scriptPath = scriptPath,
        !.scriptAttributes = scriptAttributes, !.pc = "done"]

\* displayPanel up to its await: the panel is created and shown.
displayPanel(c, htmlContent) ==
    [Logged(c, Ev("createWebviewPanel", htmlContent, "")) EXCEPT !.pc = "panel"]

createRepoSh(c, scriptName, scriptPath, scriptAttributes) ==
    IF Truthy(scriptAttributes)
    THEN displayPanel(c, "THE REPO HAS BEEN CREATED !!!")
    ELSE Logged(c, Ev("showErrorMessage", MsgMissing, ""))

addSecretSh(c, scriptName, scriptPath, scriptAttributes) ==
    IF Truthy(scriptAttributes)
    THEN displayPanel(c, "THE SECRET HAS BEEN ADDED !!!")
    ELSE Logged(c, Ev("showErrorMessage", MsgMissing, ""))

pipelineGeneratorSh(c, scriptName, scriptPath, scriptAttributes) ==
    IF Truthy(scriptAttributes)
    THEN displayPanel(c, "THE PIPELINE HAS BEEN CREATED !!!")
    ELSE Logged(c, Ev("showErrorMessage", MsgMissing, ""))

\* scriptSelector whose default case runs the repository script.
scriptSelectorDefaultsToCreateRepo(c, scriptId, scriptPath, scriptAttributes) ==
    LET d == Entered(c, scriptId, scriptPath, scriptAttributes) IN
    CASE scriptId = "add-secret.sh" -> addSecretSh(d, scriptId, scriptPath, scriptAttributes)
      [] scriptId = "pipeline_generator.sh" ->
            pipelineGeneratorSh(d, "pipeline_generator.sh", scriptPath, scriptAttributes)
      [] OTHER -> createRepoSh(d, scriptId, scriptPath, scriptAttributes)

\* scriptSelector(scriptId, scriptPath, scriptAttributes) of hangarScripts.ts.
scriptSelector(c, scriptId, scriptPath, scriptAttributes) ==
    LET d == Entered(c, scriptId, scriptPath, scriptAttributes) IN
    CASE scriptId = "create-repo.sh" -> createRepoSh(d, scriptId, scriptPath, scriptAttributes)
      [] scriptId = "add-secret.sh" -> addSecretSh(d, scriptId, scriptPath, scriptAttributes)
      [] scriptId = "pipeline_generator.sh" ->
            pipelineGeneratorSh(d, "pipeline_generator.sh", scriptPath, scriptAttributes)
      [] OTHER -> Logged(d, Ev("showErrorMessage", MsgNoScript, scriptId))

\* After displayPanel's timer: the panel is disposed and executeScript calls execSync.
executeScript(c) ==
    [Logged(Logged(c, Ev("panel.dispose", "", "")),
            Ev("spawn", c.scriptId, Interpolate(c.scriptAttributes))) EXCEPT !.pc = "running"]

\* execSync returns, or throws into executeScript's catch.
executeScriptReturn(c, outcome) ==
    LET e == [Logged(c, Ev("exit", outcome, "")) EXCEPT !.pc = "done"] IN
    IF outcome = "exit0" THEN e
    ELSE Logged(e, Ev("showErrorMessage", MsgExecFailed, RawError(outcome)))

\* ------------------------------------------------------------------ dispatcher, promisified variant

\* executeScript of hangarScripts.js: exec spawns the process and the caller awaits it.
executeScriptExec(c, scriptPath, scriptName, scriptAttributes) ==
    [Logged(c, Ev("spawn", scriptName, Interpolate(scriptAttributes))) EXCEPT
        !.pc = "running", !.scriptPath = scriptPath]

createRepoShExec(c, scriptName, scriptAttributes) ==
    executeScriptExec(c, "repositories/github", scriptName, scriptAttributes)

pipelineGeneratorShExec(c, scriptName, scriptAttributes) ==
    executeScriptExec(c, "pipelines/github", scriptName, scriptAttributes)

\* scriptSelector(radioButtonId, scriptAttributes) of hangarScripts.js.
scriptSelectorExec(c, radioButtonId, scriptAttributes) ==
    LET d == Entered(c, radioButtonId, None, scriptAttributes) IN
    CASE radioButtonId = "create-repo.sh" ->
            createRepoShExec(d, "create-repo.sh", scriptAttributes)
      [] radioButtonId = "pipeline_generator.sh" ->
            pipelineGeneratorShExec(d, "pipeline_generator.sh", scriptAttributes)
      [] OTHER -> Logged(d, Ev("showErrorMessage", MsgNoScript, radioButtonId))

\* The awaited exec settles: the rest of createRepoSh / pipelineGeneratorSh.
shSettled(c, outcome) ==
    LET e == [Logged(c, Ev("exit", outcome, "")) EXCEPT !.pc = "done"] IN
    IF outcome = "exit0"
    THEN Logged(e, Ev("showInformationMessage", InfoMessage(c.scriptId), ""))
    ELSE Logged(e, Ev("showErrorMessage", MsgError, RawError(outcome)))

\* ------------------------------------------------------------------ actions

Init ==
    /\ variant \in Variants
    /\ checked = [id \in CatalogIds |-> FALSE]
    /\ calls = EmptyBag

\* The user clicks a checkbox.
Toggle(id) ==
    /\ ~Blocked
    /\ checked' = toggle(checked, id)
    /\ UNCHANGED <<variant, calls>>

\* The "run" command fires.
RunScripts ==
    /\ ~Blocked
    /\ BagCardinality(calls) < MaxCalls
    /\ calls' = Started(runScripts(checked))
    /\ UNCHANGED <<variant, checked>>

\* showInputBox resolves with the text entered (Undefined when cancelled) and the
\* handler calls hangarScripts.scriptSelector(selectedScriptIds[0], scriptAttributes):
\* two arguments, which the three-parameter scriptSelector takes as scriptId and
\* scriptPath, its scriptAttributes left undefined.
InputBoxResolve(c, text) ==
    /\ ~Blocked
    /\ c.pc = "prompt"
    /\ LET d == [c EXCEPT !.entered = text] IN
       calls' = Stepped(c, IF variant = "promisified"
                           THEN scriptSelectorExec(d, d.sel, text)
                           ELSE scriptSelector(d, d.sel, text, Undefined))
    /\ UNCHANGED <<variant, checked>>

\* A caller other than the handler calls the public scriptSelector.
ScriptSelectorCall(id, attrs) ==
    /\ ~Blocked
    /\ BagCardinality(calls) < MaxCalls
    /\ calls' = Started(IF variant = "promisified"
                        THEN scriptSelectorExec(NewCall("api", 0, None), id, attrs)
                        ELSE scriptSelector(NewCall("api", 0, None), id, "/script/folder/path", attrs))
    /\ UNCHANGED <<variant, checked>>

\* displayPanel's 100 ms timer fires; the *Sh function goes on to executeScript.
PanelTimeout(c) ==
    /\ ~Blocked
    /\ c.pc = "panel"
    /\ calls' = Stepped(c, executeScript(c))
    /\ UNCHANGED <<variant, checked>>

\* The process execSync waits for ends.
ExecSyncReturn(c, outcome) ==
    /\ variant = "execSync"
    /\ c.pc = "running"
    /\ calls' = Stepped(c, executeScriptReturn(c, outcome))
    /\ UNCHANGED <<variant, checked>>

\* The process a promisified exec awaits ends.
ExecSettle(c, outcome) ==
    /\ variant = "promisified"
    /\ ~Blocked
    /\ c.pc = "running"
    /\ calls' = Stepped(c, shSettled(c, outcome))
    /\ UNCHANGED <<variant, checked>>

Next ==
    \/ \E id \in ToggleIds : Toggle(id)
    \/ RunScripts
    \/ \E c \in Calls, text \in AttrInputs : InputBoxResolve(c, text)
    \/ \E id \in DispatchIds, attrs \in AttrInputs : ScriptSelectorCall(id, attrs)
    \/ \E c \in Calls : PanelTimeout(c)
    \/ \E c \in Calls, outcome \in Outcomes : ExecSyncReturn(c, outcome)
    \/ \E c \in Calls, outcome \in Outcomes : ExecSettle(c, outcome)

Spec == Init /\ [][Next]_vars

\* ------------------------------------------------------------------ reading a log

Has(c, kind) == \E k \in 1..Len(c.log) : c.log[k][1] = kind

Count(c, kind) == Cardinality({k \in 1..Len(c.log) : c.log[k][1] = kind})

Shows(c, e) == \E k \in 1..Len(c.log) : c.log[k] = e

\* Some entry of that kind follows the process's end in the log.
AfterExit(c, kind) ==
    \E j, k \in 1..Len(c.log) : c.log[j][1] = "exit" /\ j < k /\ c.log[k][1] = kind

Exited(c, outcomes) == \E k \in 1..Len(c.log) : c.log[k][1] = "exit" /\ c.log[k][2] \in outcomes

\* The mapping the specification names: create-repo, add-secret, pipeline-generator.
NamedMapping == {"create-repo.sh", "add-secret.sh", "pipeline_generator.sh"}

\* Attributes that are undefined, empty or whitespace-only.
BlankAttributes == {Undefined, "", " "}

\* ------------------------------------------------------------------ claims

\* C1: when "run" fires with two or more Actions checked, the "select only one"
\* error is shown and that invocation opens no prompt, never calls scriptSelector
\* and spawns no process.
MultipleSelectionRejected ==
    \A c \in Calls : (c.origin = "ui" /\ c.nsel >= 2) =>
        /\ c.log = <<Ev("showErrorMessage", MsgSelectOne, "")>>
        /\ c.pc = "done"
        /\ c.ndispatch = 0
        /\ ~Has(c, "showInputBox") /\ ~Has(c, "scriptSelector") /\ ~Has(c, "spawn")

MultipleSelectionRun ==
    \E c \in Calls : c.origin = "ui" /\ c.nsel = 2 /\ Has(c, "showErrorMessage")

\* C2: when "run" fires with no Action checked, the invocation does nothing: no
\* prompt, no scriptSelector call, no process, no notification.
EmptySelectionIsNoOp ==
    \A c \in Calls : (c.origin = "ui" /\ c.nsel = 0) =>
        c.log = <<>> /\ c.pc = "done" /\ c.ndispatch = 0

EmptySelectionRun ==
    /\ \E c \in Calls : c.origin = "ui" /\ c.nsel = 0
    /\ \A id \in CatalogIds : ~checked[id]

\* C3: when "run" fires with exactly one Action checked, the handler prompts first
\* and then calls scriptSelector exactly once, with the checked Action's id and with
\* the text the user entered as its attributes argument.
SingleSelectionDispatched ==
    \A c \in Calls : (c.origin = "ui" /\ c.nsel = 1) =>
        /\ c.log[1] = Ev("showInputBox", "", "")
        /\ c.pc = "prompt" => c.ndispatch = 0
        /\ c.pc # "prompt" =>
            /\ c.ndispatch = 1 /\ Count(c, "scriptSelector") = 1
            /\ c.log[2] = Ev("scriptSelector", c.sel, "")
            /\ c.scriptId = c.sel
            /\ c.scriptAttributes = c.entered

\* C4: a scriptSelector call for a mapped id with undefined, empty or whitespace-only
\* attributes shows the missing-attributes error and spawns no process.
MissingAttributesRejected ==
    \A c \in Calls :
        (c.ndispatch > 0 /\ c.scriptId \in NamedMapping /\ c.scriptAttributes \in BlankAttributes) =>
            Shows(c, Ev("showErrorMessage", MsgMissing, "")) /\ ~Has(c, "spawn")

\* C5: a scriptSelector call for an id outside the mapping shows an error naming the
\* id and spawns no process, whatever the attributes.
UnknownActionRejected ==
    \A c \in Calls : (c.ndispatch > 0 /\ c.scriptId \notin NamedMapping) =>
        /\ Shows(c, Ev("showErrorMessage", MsgNoScript, c.scriptId))
        /\ ~Has(c, "spawn") /\ ~Has(c, "createWebviewPanel")
        /\ c.pc = "done"

UnknownActionDispatched ==
    \E c \in Calls : c.ndispatch > 0 /\ c.scriptId = "nonexistent.sh"
                     /\ c.scriptAttributes = "-a create -n repo-test -d /tmp/x"

\* C6: when the spawned process exits with code 0, the invocation shows both the
\* action's "done" information message and the completion panel, each after the
\* process has ended.
SuccessShowsDoneAndPanel ==
    \A c \in Calls : Exited(c, {"exit0"}) =>
        /\ AfterExit(c, "showInformationMessage")
        /\ AfterExit(c, "createWebviewPanel")

\* C7: when the spawned process fails (non-zero exit or spawn error), an error
\* notification with the raw error text is shown, the process is spawned once only,
\* and neither a "done" message nor a completion panel is shown by the invocation.
FailureShowsOnlyError ==
    \A c \in Calls : Exited(c, {"nonzero", "spawnError"}) =>
        /\ \E k \in 1..Len(c.log) : /\ c.log[k][1] = "showErrorMessage"
                                    /\ c.log[k][3] \in {RawError(o) : o \in Outcomes \ {"exit0"}}
        /\ Count(c, "spawn") = 1
        /\ ~Has(c, "showInformationMessage")
        /\ ~Has(c, "createWebviewPanel")

ToggleTwiceRestores ==
    [][\A id \in CatalogIds :
          checked' = toggle(checked, id) =>
              /\ checked'[id] = ~checked[id]
              /\ toggle(checked', id) = checked]_vars

ToggledSelection ==
    /\ \E id \in CatalogIds : checked[id]
    /\ \E id \in CatalogIds : ~checked[id]
    /\ \A id \in CatalogIds : toggle(toggle(checked, id), id) = checked

\* C10: every id of the catalog has a case in the dispatcher, so no invocation that
\* comes from the checklist and the "run" command shows the no-script-found error.
CatalogIsDispatchable ==
    \A c \in Calls : c.origin = "ui" =>
        ~\E k \in 1..Len(c.log) : c.log[k][1] = "showErrorMessage" /\ c.log[k][2] = MsgNoScript

CatalogDispatched ==
    \E c \in Calls : c.origin = "ui" /\ c.ndispatch = 1 /\ c.pc = "done"

====
